---- MODULE Spec2Model ----
(***************************************************************************)
(* A model of the SmolLM2-to-DeepSeek repository: the nucleus-sampling     *)
(* decode loop (generate.py), the checkpoint loader (generate.py), the     *)
(* mixture-of-experts routing and the loss aggregation (model.py) and the  *)
(* training loop (train.py).                                               *)
(*                                                                         *)
(* Number representation.  A logit x is carried as the integer exp(x)      *)
(* ("weight"): softmax(x)[t] = w[t] / Sum(w), sorting by logit is sorting   *)
(* by weight, -inf is the weight 0, and dividing the logits by a           *)
(* temperature 1/k raises the weights to the power k.  top_p is the         *)
(* fraction top_p / TopPDen.  All comparisons are exact (no rounding).     *)
(***************************************************************************)
EXTENDS Integers, Sequences, FiniteSets, TLC

(* ---------------------------- bounds ----------------------------------- *)
\* size of the vocabulary in the sampling model (49152 in ModelConfig)
vocab_size == 3
\* largest exp-logit weight the model head produces for one token
MaxLogitW == 3
\* temperatures are 1/1 .. 1/MaxInvTemp
MaxInvTemp == 2
\* top_p ranges over 0/TopPDen .. TopPDen/TopPDen
TopPDen == 4
\* longest tokenized prompt
MaxPrompt == 2
\* largest max_length argument of generate_text
MaxNew == 2
\* rows of the rotary table (2048 in LlamaRotaryEmbedding), scaled down
RotaryPositions == 2
\* token positions (batch * sequence) of the tensor given to MoE.forward
MoETokens == 2
\* largest num_experts, and largest top_k, of an MoE layer
MaxExperts == 2
\* largest exp-logit weight the router produces for one expert
MaxRouterW == 2
\* largest hidden_size of a configuration
MaxHidden == 4
\* largest num_attention_heads of a configuration
MaxHeads == 2
\* largest num_hidden_layers of a configuration
MaxLayers == 2
\* forward passes made on one model instance
MaxCalls == 2
\* largest auxiliary loss one MoE layer computes
MaxAux == 1
\* largest cross-entropy value
MaxCE == 1
\* largest number of records in the training stream
MaxData == 2
\* largest number of tokens of one record
MaxTextLen == 2
\* largest batch_size argument of train_model
MaxBatch == 2
\* num_steps ranges over 0 .. SmallSteps and one run past the first checkpoint
SmallSteps == 5

(* ------------------------ program constants ---------------------------- *)
eos_token_id == 0
\* exp(-inf): the weight of a logit set to float("-inf")
NegInf == 0
\* loss = ce_loss + 0.01 * aux_loss, carried in hundredths: 100 * ce_loss + aux_loss
LossScale == 100
\* F.cross_entropy's default ignore_index
IgnoreIndex == -100
gradient_accumulation_steps == 4
\* if step % 500 == 0: save a checkpoint
CheckpointEvery == 500
\* tokenizer(..., truncation=True, max_length=512)
TokenizerMaxLength == 512

(* ------------------------------ helpers -------------------------------- *)
Tokens == 0 .. (vocab_size - 1)

RECURSIVE Pow(_, _)
Pow(b, k) == IF k = 0 THEN 1 ELSE b * Pow(b, k - 1)

RECURSIVE SumTo(_, _)
\* s[1] + ... + s[n]
SumTo(s, n) == IF n = 0 THEN 0 ELSE s[n] + SumTo(s, n - 1)

IsPrefix(s, t) == Len(s) <= Len(t) /\ SubSeq(t, 1, Len(s)) = s

VARIABLES
  \* generate_text
  gpc, prompt, input_ids, max_length, top_p, inv_temp, steps, n_forward,
  \* one decode step's locals (the top-p truncation and the draw)
  npc, outputs_last, n_top_p, n_inv_temp, sorted_indices, next_token_logits,
  next_token,
  \* MoE.forward
  mpc, num_experts, top_k, router_w, top_k_indices, top_k_probs, output,
  moe_aux_loss,
  \* DeepSeekForCausalLM: construction and forward calls
  cpc, config, aux_loss, fpc, f_args, f_layer, f_own, f_ret,
  \* train_model and main of train.py
  tpc, dataset, batch_size, num_steps, step, train_iter, batch_texts, inputs,
  ce_positions, grads, n_opt, checkpoints,
  \* load_trained_model
  lpc, file_obj, load_fails, tokenizer_fails, attempts, checkpoint, model_params

genVars == <<gpc, prompt, input_ids, max_length, top_p, inv_temp, steps, n_forward>>
nucVars == <<npc, outputs_last, n_top_p, n_inv_temp, sorted_indices,
             next_token_logits, next_token>>
moeVars == <<mpc, num_experts, top_k, router_w, top_k_indices, top_k_probs, output,
             moe_aux_loss>>
fwdVars == <<cpc, config, aux_loss, fpc, f_args, f_layer, f_own, f_ret>>
trainVars == <<tpc, dataset, batch_size, num_steps, step, train_iter, batch_texts,
               inputs, ce_positions, grads, n_opt, checkpoints>>
loadVars == <<lpc, file_obj, load_fails, tokenizer_fails, attempts, checkpoint,
              model_params>>
vars == <<genVars, nucVars, moeVars, fwdVars, trainVars, loadVars>>

(* ===================== generate.py: top-p truncation =================== *)

\* next_token_logits = outputs[..., -1, :] / temperature, temperature = 1/k
TemperatureScale(w, k) == [t \in DOMAIN w |-> Pow(w[t], k)]

\* torch.sort(descending=True): every order of the indices that is descending
\* in the logit; the order among equal logits is not specified
TorchSortDescending(x) ==
  { p \in [1 .. Cardinality(DOMAIN x) -> DOMAIN x] :
      /\ \A i, j \in DOMAIN p : i # j => p[i] # p[j]
      /\ \A i, j \in DOMAIN p : i < j => x[p[i]] >= x[p[j]] }

\* sorted_logits
SortedLogits(x, p) == [i \in DOMAIN p |-> x[p[i]]]

\* cumulative_probs > top_p, with softmax = weight / total and top_p = tp / TopPDen
CumulativeExceeds(x, p, tp) ==
  LET s == SortedLogits(x, p)
      total == SumTo(s, Len(s))
  IN  [i \in DOMAIN p |-> SumTo(s, i) * TopPDen > tp * total]

\* faulty variant: the mask is not shifted, so the entry that crosses top_p goes too
KeepFirstNoShift(r) == [i \in DOMAIN r |-> IF i = 1 THEN FALSE ELSE r[i]]

\* sorted_indices_to_remove[..., 1:] = sorted_indices_to_remove[..., :-1];
\* sorted_indices_to_remove[..., 0] = 0
ShiftKeepFirst(r) == [i \in DOMAIN r |-> IF i = 1 THEN FALSE ELSE r[i - 1]]

\* sorted_indices_to_remove.scatter(1, sorted_indices, sorted_indices_to_remove)
Scatter(p, r) ==
  [t \in {p[i] : i \in DOMAIN p} |-> r[CHOOSE i \in DOMAIN p : p[i] = t]]

\* next_token_logits[indices_to_remove] = float("-inf")
MaskLogits(x, rem) == [t \in DOMAIN x |-> IF rem[t] THEN NegInf ELSE x[t]]

\* lines 81-95 for one sort order p
TopPTruncate(x, p, tp) ==
  MaskLogits(x, Scatter(p, ShiftKeepFirst(CumulativeExceeds(x, p, tp))))

\* torch.multinomial(softmax(x), 1): any token of positive probability
Multinomial(x) == {t \in DOMAIN x : x[t] > 0}

\* the values the model head can produce at the last position
LogitVectors == [Tokens -> 1 .. MaxLogitW]

(* ---- pure-function specification of one decode step's truncation ------ *)

NucIdle ==
  /\ npc = "off" /\ outputs_last = <<>> /\ n_top_p = 0 /\ n_inv_temp = 1
  /\ sorted_indices = <<>> /\ next_token_logits = <<>> /\ next_token = -1

\* the inputs of a decode step: the logits at the last position, top_p, temperature
NucInit ==
  /\ npc = "logits"
  /\ outputs_last \in LogitVectors
  /\ n_top_p \in 0 .. TopPDen
  /\ n_inv_temp \in 1 .. MaxInvTemp
  /\ sorted_indices = <<>> /\ next_token_logits = <<>> /\ next_token = -1

\* generate.py lines 78-95
TruncateStep ==
  /\ npc = "logits"
  /\ LET x == TemperatureScale(outputs_last, n_inv_temp)
     IN  \E p \in TorchSortDescending(x) :
           /\ sorted_indices' = p
           /\ next_token_logits' = TopPTruncate(x, p, n_top_p)
  /\ npc' = "truncated"
  /\ UNCHANGED <<outputs_last, n_top_p, n_inv_temp, next_token>>

\* generate.py lines 98-99
SampleStep ==
  /\ npc = "truncated"
  /\ \E tok \in Multinomial(next_token_logits) : next_token' = tok
  /\ npc' = "sampled"
  /\ UNCHANGED <<outputs_last, n_top_p, n_inv_temp, sorted_indices, next_token_logits>>

(* ===================== generate.py: generate_text ====================== *)

GenIdle ==
  /\ gpc = "idle" /\ prompt = <<>> /\ input_ids = <<>> /\ max_length = 0
  /\ top_p = 0 /\ inv_temp = 1 /\ steps = 0 /\ n_forward = 0

RECURSIVE SeqsUpTo(_, _)
\* the sequences over S of length at most n
SeqsUpTo(S, n) ==
  IF n = 0 THEN {<<>>}
  ELSE LET shorter == SeqsUpTo(S, n - 1)
       IN  shorter \cup {Append(s, x) : s \in {q \in shorter : Len(q) = n - 1}, x \in S}

\* generate_text(model, tokenizer, device, prompt, max_length, temperature, top_p):
\* input_ids = tokenizer(prompt)["input_ids"]
GenerateCall ==
  /\ gpc = "idle"
  /\ prompt' \in SeqsUpTo(Tokens, MaxPrompt)
  /\ input_ids' = prompt'
  /\ max_length' \in 0 .. MaxNew
  /\ top_p' \in 0 .. TopPDen
  /\ inv_temp' \in 1 .. MaxInvTemp
  /\ steps' = 0 /\ n_forward' = 0
  /\ gpc' = "running"

\* faulty variant: one iteration too many
LoopContinuesInclusive(k, n) == k <= n

\* for _ in range(max_length)
LoopContinues(k, n) == k < n

\* model(input_ids) on a model built from the default ModelConfig: the rotary
\* table has RotaryPositions rows, and outputs[..., -1, :] needs a last position
ForwardDefined(ids) == Len(ids) >= 1 /\ Len(ids) <= RotaryPositions

\* faulty variant: the new token is put in front
CatFront(ids, tok) == <<tok>> \o ids

\* torch.cat([input_ids, next_token], dim=1)
Cat(ids, tok) == Append(ids, tok)

\* faulty variant: no break on the end-of-sequence token
AfterTokenNoBreak(tok) == "running"

\* if next_token.item() == tokenizer.eos_token_id: break
AfterToken(tok) == IF tok = eos_token_id THEN "done" ELSE "running"

\* the tokens lines 78-99 can draw at top_p = tp / TopPDen and temperature 1 / k,
\* over every logit vector the model may put out and every order of the sort
DrawsOf(tp, k) ==
  UNION { UNION { Multinomial(TopPTruncate(TemperatureScale(w, k), p, tp)) :
                    p \in TorchSortDescending(TemperatureScale(w, k)) } :
          w \in LogitVectors }

\* DrawsOf, tabulated once for the sampling parameters a caller may pass
DrawsTable ==
  {<<tp, k, DrawsOf(tp, k)>> : tp \in 0 .. TopPDen, k \in 1 .. MaxInvTemp}

\* the tokens one decode step can draw from input_ids
DecodeDraws(tp, k) ==
  UNION {e[3] : e \in {d \in DrawsTable : d[1] = tp /\ d[2] = k}}

\* one iteration of the loop, lines 73-106
DecodeStep ==
  /\ gpc = "running"
  /\ LoopContinues(steps, max_length)
  /\ ForwardDefined(input_ids)
  /\ \E tok \in DecodeDraws(top_p, inv_temp) :
       /\ input_ids' = Cat(input_ids, tok)
       /\ gpc' = AfterToken(tok)
  /\ steps' = steps + 1
  /\ n_forward' = n_forward + 1
  /\ UNCHANGED <<prompt, max_length, top_p, inv_temp>>

\* the forward pass raises: generate_text is left by the exception
DecodeRaises ==
  /\ gpc = "running"
  /\ LoopContinues(steps, max_length)
  /\ ~ForwardDefined(input_ids)
  /\ n_forward' = n_forward + 1
  /\ gpc' = "raised"
  /\ UNCHANGED <<prompt, input_ids, max_length, top_p, inv_temp, steps>>

\* range(max_length) is exhausted: return tokenizer.decode(input_ids[0])
LoopExit ==
  /\ gpc = "running"
  /\ ~LoopContinues(steps, max_length)
  /\ gpc' = "done"
  /\ UNCHANGED <<prompt, input_ids, max_length, top_p, inv_temp, steps, n_forward>>

(* ========================= model.py: MoE.forward ======================= *)
(* A probability is a pair <<numerator, denominator>>; the probabilities of *)
(* one token share their denominator.                                      *)

Positions == 1 .. MoETokens
Experts(n) == 0 .. (n - 1)

MoEIdle ==
  /\ mpc = "off" /\ num_experts = 0 /\ top_k = 0 /\ router_w = <<>>
  /\ top_k_indices = <<>> /\ top_k_probs = <<>> /\ output = <<>>
  /\ moe_aux_loss = <<>>

\* MoE(hidden_size, num_experts, top_k) applied to a tensor whose router logits
\* are router_w; aux_loss starts as 0.0, written <<>>
MoEInit ==
  /\ mpc = "input"
  /\ num_experts \in 1 .. MaxExperts
  /\ top_k \in 1 .. MaxExperts
  /\ router_w \in [Positions -> [Experts(num_experts) -> 1 .. MaxRouterW]]
  /\ top_k_indices = <<>> /\ top_k_probs = <<>> /\ output = <<>>
  /\ moe_aux_loss = <<>>

RECURSIVE SumOver(_, _)
\* the sum of f over the finite set S
SumOver(f, S) ==
  IF S = {} THEN 0
  ELSE LET x == CHOOSE y \in S : TRUE IN f[x] + SumOver(f, S \ {x})

\* F.softmax(router_logits, dim=-1) for one token
Softmax(w) == [e \in DOMAIN w |-> <<w[e], SumOver(w, DOMAIN w)>>]

\* the index sequences torch.topk(probs, k) may return for one token: k distinct
\* experts in descending order of probability, none left out that is larger
TopKIndices(probs, k) ==
  { idx \in [1 .. k -> DOMAIN probs] :
      /\ \A i, j \in 1 .. k : i # j => idx[i] # idx[j]
      /\ \A i, j \in 1 .. k : i < j => probs[idx[i]][1] >= probs[idx[j]][1]
      /\ \A e \in DOMAIN probs \ {idx[i] : i \in 1 .. k} :
           \A i \in 1 .. k : probs[e][1] <= probs[idx[i]][1] }

\* the values torch.topk returns with the indices idx
TopKValues(probs, idx) == [i \in DOMAIN idx |-> probs[idx[i]]]

\* faulty variant: the selected probabilities are used as they are
NoRenormalize(vals) == vals

\* top_k_probs / top_k_probs.sum(dim=-1, keepdim=True): (n/d) / (s/d) = n*d / (d*s)
Renormalize(vals) ==
  LET s == SumTo([i \in DOMAIN vals |-> vals[i][1]], Len(vals))
  IN  [i \in DOMAIN vals |-> <<vals[i][1] * vals[i][2], vals[i][2] * s>>]

\* torch.zeros_like(x): per token and expert, how often the expert's output was
\* added and with which total weight (a numerator)
ZeroOutput(n) == [t \in Positions |-> [e \in Experts(n) |-> [times |-> 0, weight |-> 0]]]

\* mask = expert_idx == j, for slot i
Mask(idx, i, j) == [t \in Positions |-> idx[t][i] = j]

\* output[mask] += self.experts[j](x[mask]) * expert_probs[mask]
Accumulate(out, mask, j, probs, i) ==
  [t \in Positions |->
     IF mask[t]
     THEN [out[t] EXCEPT ![j] = [times |-> @.times + 1, weight |-> @.weight + probs[t][i][1]]]
     ELSE out[t]]

RECURSIVE ExpertLoop(_, _, _, _, _, _, _)
\* the loops over the slots i (1 .. k) and the experts j (0 .. n - 1), from (i, j) on
ExpertLoop(out, idx, probs, k, n, i, j) ==
  IF i > k THEN out
  ELSE IF j >= n THEN ExpertLoop(out, idx, probs, k, n, i + 1, 0)
  ELSE LET mask == Mask(idx, i, j)
           next == IF \E t \in Positions : mask[t]
                   THEN Accumulate(out, mask, j, probs, i)
                   ELSE out
       IN  ExpertLoop(next, idx, probs, k, n, i, j + 1)

\* expert_usage before its normalisation, times the product of the tokens'
\* softmax denominators: the distribution whose |sum u log u| becomes aux_loss
ExpertUsage(w) ==
  LET total(t) == SumOver(w[t], DOMAIN w[t])
      RECURSIVE others(_, _)
      others(t, S) ==
        IF S = {} THEN 1
        ELSE LET u == CHOOSE y \in S : TRUE
             IN  (IF u = t THEN 1 ELSE total(u)) * others(t, S \ {u})
  IN  [e \in DOMAIN w[1] |->
         SumOver([t \in Positions |-> w[t][e] * others(t, Positions)], Positions)]

\* MoE.forward, lines 119-157, when torch.topk accepts top_k
MoEForward ==
  /\ mpc = "input"
  /\ top_k <= num_experts
  /\ \E idx \in [Positions -> [1 .. top_k -> Experts(num_experts)]] :
       /\ \A t \in Positions : idx[t] \in TopKIndices(Softmax(router_w[t]), top_k)
       /\ top_k_indices' = idx
       /\ top_k_probs' =
            [t \in Positions |->
               Renormalize(TopKValues(Softmax(router_w[t]), idx[t]))]
       /\ output' = ExpertLoop(ZeroOutput(num_experts), idx, top_k_probs',
                               top_k, num_experts, 1, 0)
  /\ moe_aux_loss' = ExpertUsage(router_w)
  /\ mpc' = "done"
  /\ UNCHANGED <<num_experts, top_k, router_w>>

\* torch.topk raises when top_k exceeds the number of experts
MoEForwardRaises ==
  /\ mpc = "input"
  /\ top_k > num_experts
  /\ mpc' = "raised"
  /\ UNCHANGED <<num_experts, top_k, router_w, top_k_indices, top_k_probs, output,
                 moe_aux_loss>>

(* ============ model.py: DeepSeekForCausalLM construction, forward ====== *)

Calls == 1 .. MaxCalls
NoConfig == [hidden_size |-> 0, num_attention_heads |-> 0, vocab_size |-> 0,
             num_hidden_layers |-> 0]
NoArgs == [labels |-> FALSE, seq_len |-> 0, max_id |-> 0]
NoRet == [kind |-> "none"]

FwdIdle ==
  /\ cpc = "unbuilt" /\ config = NoConfig /\ aux_loss = <<>>
  /\ fpc = [c \in Calls |-> "idle"]
  /\ f_args = [c \in Calls |-> NoArgs]
  /\ f_layer = [c \in Calls |-> 0]
  /\ f_own = [c \in Calls |-> <<>>]
  /\ f_ret = [c \in Calls |-> NoRet]

\* the configurations a caller may pass; the tokenizer has vocab_size tokens
Configs ==
  [hidden_size : 1 .. MaxHidden, num_attention_heads : 0 .. MaxHeads,
   vocab_size : {vocab_size - 1, vocab_size, vocab_size + 1},
   num_hidden_layers : 0 .. MaxLayers]

\* DeepSeekAttention.__init__: self.head_dim = hidden_size // num_attention_heads
head_dim(cfg) == cfg.hidden_size \div cfg.num_attention_heads

\* what makes DeepSeekForCausalLM(config) raise: the integer division by zero
\* heads, in the first decoder layer's attention
ConstructorRaises(cfg) == cfg.num_hidden_layers > 0 /\ cfg.num_attention_heads = 0

\* DeepSeekForCausalLM.__init__ returns the model; every MoE starts with aux_loss = 0.0
Construct ==
  /\ cpc = "unbuilt"
  /\ \E cfg \in Configs :
       /\ ~ConstructorRaises(cfg)
       /\ config' = cfg
       /\ aux_loss' = [l \in 1 .. cfg.num_hidden_layers |-> [v |-> 0, by |-> 0]]
  /\ cpc' = "built"
  /\ UNCHANGED <<fpc, f_args, f_layer, f_own, f_ret>>

\* DeepSeekForCausalLM.__init__ raises
ConstructFails ==
  /\ cpc = "unbuilt"
  /\ \E cfg \in Configs : ConstructorRaises(cfg) /\ config' = cfg
  /\ cpc' = "raised"
  /\ UNCHANGED <<aux_loss, fpc, f_args, f_layer, f_own, f_ret>>

\* nn.Embedding raises on a token id outside its vocab_size rows
EmbedDefined(cfg, args) == args.max_id < cfg.vocab_size

\* DeepSeekAttention.forward: view(batch, seq, num_heads, head_dim) needs
\* num_heads * head_dim = hidden_size, the rotary reshape into pairs needs an even
\* head_dim, and the rotary table has RotaryPositions rows
AttentionDefined(cfg, args) ==
  /\ cfg.num_attention_heads * head_dim(cfg) = cfg.hidden_size
  /\ head_dim(cfg) % 2 = 0
  /\ args.seq_len <= RotaryPositions

InFlight(c) == fpc[c] \in {"layers"}

\* one in-flight forward pass per model instance
OneInFlight(c) == \A d \in Calls \ {c} : ~InFlight(d)

\* forward(input_ids, attention_mask, labels) is entered: embed_tokens(input_ids)
ForwardArgs ==
  [labels : BOOLEAN, seq_len : 1 .. (RotaryPositions + 1), max_id : {0, vocab_size - 1}]

ForwardStart(c) ==
  /\ cpc = "built"
  /\ fpc[c] = "idle"
  /\ OneInFlight(c)
  /\ \E args \in ForwardArgs :
       /\ f_args' = [f_args EXCEPT ![c] = args]
       /\ fpc' = [fpc EXCEPT ![c] = IF EmbedDefined(config, args)
                                    THEN "layers" ELSE "raised"]
  /\ f_layer' = [f_layer EXCEPT ![c] = 1]
  /\ UNCHANGED <<cpc, config, aux_loss, f_own, f_ret>>

\* the values |sum u log u| an MoE layer can compute
AuxValues == 0 .. MaxAux

\* faulty variant: the layer keeps its old auxiliary loss
MoEKeepsOld(aux, l, v, c) == aux

\* self.aux_loss = torch.abs(entropy), in layer l, during call c
MoEWrite(aux, l, v, c) == [aux EXCEPT ![l] = [v |-> v, by |-> c]]

\* DeepSeekDecoderLayer.forward of the call's next layer: attention, then the MoE
LayerStep(c) ==
  /\ fpc[c] = "layers"
  /\ f_layer[c] <= config.num_hidden_layers
  /\ AttentionDefined(config, f_args[c])
  /\ \E v \in AuxValues :
       /\ aux_loss' = MoEWrite(aux_loss, f_layer[c], v, c)
       /\ f_own' = [f_own EXCEPT ![c] = Append(@, v)]
  /\ f_layer' = [f_layer EXCEPT ![c] = @ + 1]
  /\ UNCHANGED <<cpc, config, fpc, f_args, f_ret>>

\* the attention of the call's next layer raises
LayerRaises(c) ==
  /\ fpc[c] = "layers"
  /\ f_layer[c] <= config.num_hidden_layers
  /\ ~AttentionDefined(config, f_args[c])
  /\ fpc' = [fpc EXCEPT ![c] = "raised"]
  /\ UNCHANGED <<cpc, config, aux_loss, f_args, f_layer, f_own, f_ret>>

\* faulty variant: the sum stops before the last layer
AuxSumSkipsLast(aux) ==
  IF Len(aux) = 0 THEN 0 ELSE SumTo([l \in DOMAIN aux |-> aux[l].v], Len(aux) - 1)

\* sum(layer.moe.aux_loss for layer in self.model.layers)
AuxSum(aux) == SumTo([l \in DOMAIN aux |-> aux[l].v], Len(aux))

\* loss = ce_loss + 0.01 * aux_loss, in hundredths
TotalLoss(ce, aux) == LossScale * ce + AuxSum(aux)

\* after the last layer: norm, lm_head and, with labels, the loss
ForwardFinish(c) ==
  /\ fpc[c] = "layers"
  /\ f_layer[c] > config.num_hidden_layers
  /\ IF f_args[c].labels
     THEN \E ce \in 0 .. MaxCE :
            f_ret' = [f_ret EXCEPT ![c] =
                        [kind |-> "loss", ce |-> ce,
                         loss |-> TotalLoss(ce, aux_loss),
                         read |-> {aux_loss[l].by : l \in DOMAIN aux_loss},
                         src |-> [l \in DOMAIN aux_loss |-> aux_loss[l].by]]]
     ELSE f_ret' = [f_ret EXCEPT ![c] = [kind |-> "logits"]]
  /\ fpc' = [fpc EXCEPT ![c] = "returned"]
  /\ UNCHANGED <<cpc, config, aux_loss, f_args, f_layer, f_own>>

(* ------ two forward calls on one model instance that may overlap ------- *)

\* the two callers (threads) that share the model instance
OverlapCalls == {1, 2}

\* forward calls with labels, of the shortest length and of the first length
\* the rotary table does not cover
LabelledArgs ==
  {a \in ForwardArgs :
     a.labels /\ a.max_id = 0 /\ a.seq_len \in {1, RotaryPositions + 1}}

\* the configurations of a model whose forward pass is defined
OverlapConfigs ==
  {cfg \in Configs :
     /\ ~ConstructorRaises(cfg) /\ cfg.num_attention_heads > 0
     /\ cfg.vocab_size = vocab_size
     /\ AttentionDefined(cfg, [labels |-> TRUE, seq_len |-> 1, max_id |-> 0])}

\* the state after DeepSeekForCausalLM(config) returned the model
FwdBuilt ==
  /\ cpc = "built" /\ config \in OverlapConfigs
  /\ aux_loss = [l \in 1 .. config.num_hidden_layers |-> [v |-> 0, by |-> 0]]
  /\ fpc = [c \in Calls |-> "idle"]
  /\ f_args = [c \in Calls |-> NoArgs]
  /\ f_layer = [c \in Calls |-> 0]
  /\ f_own = [c \in Calls |-> <<>>]
  /\ f_ret = [c \in Calls |-> NoRet]

\* forward(input_ids, attention_mask, labels) is entered by a caller that does
\* not wait for the other caller's pass: nothing in forward takes a lock
ForwardEnter(c) ==
  /\ cpc = "built"
  /\ fpc[c] = "idle"
  /\ \E args \in LabelledArgs :
       /\ f_args' = [f_args EXCEPT ![c] = args]
       /\ fpc' = [fpc EXCEPT ![c] = IF EmbedDefined(config, args)
                                    THEN "layers" ELSE "raised"]
  /\ f_layer' = [f_layer EXCEPT ![c] = 1]
  /\ UNCHANGED <<cpc, config, aux_loss, f_own, f_ret>>

(* ======================= train.py: train_model, main =================== *)
(* A record of the stream is carried as its number of tokens; train_iter is *)
(* the number of records the current iterator has yielded.                 *)

NoInputs == [input_ids |-> <<>>, attention_mask |-> <<>>, labels |-> <<>>]

TrainIdle ==
  /\ tpc = "off" /\ dataset = <<>> /\ batch_size = 0 /\ num_steps = 0 /\ step = 0
  /\ train_iter = 0 /\ batch_texts = <<>> /\ inputs = NoInputs
  /\ ce_positions = {} /\ grads = 0 /\ n_opt = 0 /\ checkpoints = <<>>

\* tokenizer.pad_token = tokenizer.eos_token
pad_token_id == eos_token_id
\* the id standing for any token of a text
TextToken == 1

Max(S) == CHOOSE x \in S : \A y \in S : y <= x
Min2(a, b) == IF a <= b THEN a ELSE b

\* tokenizer(batch_texts, padding=True, truncation=True, max_length=512):
\* every row is cut to 512 tokens and padded on the right to the longest row
Tokenize(texts) ==
  LET len(b) == Min2(texts[b], TokenizerMaxLength)
      width == Max({len(b) : b \in DOMAIN texts})
  IN  [input_ids |->
         [b \in DOMAIN texts |->
            [t \in 1 .. width |-> IF t <= len(b) THEN TextToken ELSE pad_token_id]],
       attention_mask |->
         [b \in DOMAIN texts |-> [t \in 1 .. width |-> IF t <= len(b) THEN 1 ELSE 0]]]

\* the positions (row, t) of the shifted sequence that F.cross_entropy averages
\* over: shift_labels = labels[..., 1:], and a target equal to ignore_index is skipped
CrossEntropyPositions(labels) ==
  {<<b, t>> \in (DOMAIN labels) \X (1 .. MaxTextLen + 1) :
     t + 1 <= Len(labels[b]) /\ labels[b][t + 1] # IgnoreIndex}

\* train_model(model, dataset, tokenizer, num_steps, batch_size): lines 64-113
TrainCall ==
  /\ tpc = "off"
  /\ dataset' \in SeqsUpTo(1 .. MaxTextLen, MaxData)
  /\ batch_size' \in 1 .. MaxBatch
  /\ num_steps' \in (0 .. SmallSteps) \cup {CheckpointEvery + 1}
  /\ step' = 0 /\ train_iter' = 0 /\ grads' = 0
  /\ tpc' = "head"
  /\ UNCHANGED <<batch_texts, inputs, ce_positions, n_opt, checkpoints>>

\* while step < num_steps: batch_texts = []
LoopContinue ==
  /\ tpc = "head" /\ step < num_steps
  /\ batch_texts' = <<>>
  /\ tpc' = "batch"
  /\ UNCHANGED <<dataset, batch_size, num_steps, step, train_iter, inputs,
                 ce_positions, grads, n_opt, checkpoints>>

\* the loop ends: train_model returns the model
LoopReturn ==
  /\ tpc = "head" /\ ~(step < num_steps)
  /\ tpc' = "returned"
  /\ UNCHANGED <<dataset, batch_size, num_steps, step, train_iter, batch_texts,
                 inputs, ce_positions, grads, n_opt, checkpoints>>

\* item = next(train_iter); batch_texts.append(item["text"])
NextItem ==
  /\ tpc = "batch" /\ Len(batch_texts) < batch_size
  /\ train_iter < Len(dataset)
  /\ batch_texts' = Append(batch_texts, dataset[train_iter + 1])
  /\ train_iter' = train_iter + 1
  /\ UNCHANGED <<tpc, dataset, batch_size, num_steps, step, inputs, ce_positions,
                 grads, n_opt, checkpoints>>

\* faulty variant: iter() of the exhausted iterator, which is that iterator
RestartIterExhausted(ds) == Len(ds)

\* train_iter = iter(dataset["train"]): a fresh iterator, nothing yielded yet
RestartIter(ds) == 0

\* except StopIteration: restart the iterator, and its first record is taken
RestartAndNext ==
  /\ tpc = "batch" /\ Len(batch_texts) < batch_size
  /\ train_iter >= Len(dataset)
  /\ RestartIter(dataset) < Len(dataset)
  /\ batch_texts' = Append(batch_texts, dataset[RestartIter(dataset) + 1])
  /\ train_iter' = RestartIter(dataset) + 1
  /\ UNCHANGED <<tpc, dataset, batch_size, num_steps, step, inputs, ce_positions,
                 grads, n_opt, checkpoints>>

\* except StopIteration: the restarted iterator has no record either, and the
\* StopIteration of next(train_iter) in the handler leaves train_model
RestartFails ==
  /\ tpc = "batch" /\ Len(batch_texts) < batch_size
  /\ train_iter >= Len(dataset)
  /\ ~(RestartIter(dataset) < Len(dataset))
  /\ train_iter' = RestartIter(dataset)
  /\ tpc' = "stop_iteration"
  /\ UNCHANGED <<dataset, batch_size, num_steps, step, batch_texts, inputs,
                 ce_positions, grads, n_opt, checkpoints>>

\* lines 127-164: tokenize, labels = input_ids.clone(), forward with labels,
\* loss.backward() adds this batch's gradient to the accumulated one
ForwardBackward ==
  /\ tpc = "batch" /\ Len(batch_texts) = batch_size
  /\ LET tok == Tokenize(batch_texts)
     IN  /\ inputs' = [input_ids |-> tok.input_ids,
                       attention_mask |-> tok.attention_mask,
                       labels |-> tok.input_ids]
         /\ ce_positions' = CrossEntropyPositions(tok.input_ids)
  /\ grads' = grads + 1
  /\ tpc' = "update"
  /\ UNCHANGED <<dataset, batch_size, num_steps, step, train_iter, batch_texts,
                 n_opt, checkpoints>>

\* if (step + 1) % gradient_accumulation_steps == 0: clip, optimizer.step(),
\* optimizer.zero_grad(); then step += 1 (and the statistics)
UpdateWeights ==
  /\ tpc = "update"
  /\ (step + 1) % gradient_accumulation_steps = 0
  /\ n_opt' = n_opt + 1
  /\ grads' = 0
  /\ step' = step + 1
  /\ tpc' = "saving"
  /\ UNCHANGED <<dataset, batch_size, num_steps, train_iter, batch_texts, inputs,
                 ce_positions, checkpoints>>

\* no update in this iteration; step += 1
SkipUpdate ==
  /\ tpc = "update"
  /\ (step + 1) % gradient_accumulation_steps # 0
  /\ step' = step + 1
  /\ tpc' = "saving"
  /\ UNCHANGED <<dataset, batch_size, num_steps, train_iter, batch_texts, inputs,
                 ce_positions, grads, n_opt, checkpoints>>

\* faulty variant: the cadence is tested on the step count before step += 1
CheckpointDueBeforeIncrement(s) == (s + 1) % CheckpointEvery = 0

\* if step % 500 == 0, evaluated after step += 1
CheckpointDue(s) == s % CheckpointEvery = 0

\* if step % 500 == 0: torch.save({...}, f"checkpoint_{step}.pt")
SaveCheckpoint ==
  /\ tpc = "saving"
  /\ CheckpointDue(step)
  /\ checkpoints' = Append(checkpoints,
                           [file |-> "checkpoint", step |-> step, n_opt |-> n_opt,
                            grads |-> grads])
  /\ tpc' = "head"
  /\ UNCHANGED <<dataset, batch_size, num_steps, step, train_iter, batch_texts,
                 inputs, ce_positions, grads, n_opt>>

\* no checkpoint in this iteration
SkipCheckpoint ==
  /\ tpc = "saving"
  /\ ~CheckpointDue(step)
  /\ tpc' = "head"
  /\ UNCHANGED <<dataset, batch_size, num_steps, step, train_iter, batch_texts,
                 inputs, ce_positions, grads, n_opt, checkpoints>>

\* main: torch.save({"model_state_dict": ..., "config": config}, "final_model.pt")
SaveFinal ==
  /\ tpc = "returned"
  /\ checkpoints' = Append(checkpoints,
                           [file |-> "final_model", step |-> step, n_opt |-> n_opt,
                            grads |-> grads])
  /\ tpc' = "finished"
  /\ UNCHANGED <<dataset, batch_size, num_steps, step, train_iter, batch_texts,
                 inputs, ce_positions, grads, n_opt>>

(* ==================== generate.py: load_trained_model ================== *)
(* An unpickled object is a state dict (a dict without the key              *)
(* "model_state_dict", which matches the model's parameters or not), a      *)
(* wrapper (a dict with that key, holding another object) or anything else. *)

StateDict(m) == [type |-> "state_dict", match |-> m]
Wrapper(o) == [type |-> "wrapper", inner |-> o]
OtherObject == [type |-> "object"]
NoObject == [type |-> "none"]

\* what the checkpoint file can hold
FileObjects ==
  {StateDict(TRUE), StateDict(FALSE), Wrapper(StateDict(TRUE)),
   Wrapper(StateDict(FALSE)), Wrapper(OtherObject), OtherObject}

Tiers == 1 .. 3

LoadIdle ==
  /\ lpc = "off" /\ file_obj = NoObject /\ load_fails = <<>>
  /\ tokenizer_fails = FALSE /\ attempts = <<>> /\ checkpoint = NoObject
  /\ model_params = "none"

\* load_trained_model(checkpoint_path) is entered with a freshly built model; the
\* file and the environment decide which torch.load calls raise and whether
\* the tokenizer can be fetched
LoadInit ==
  /\ lpc = "tier1"
  /\ file_obj \in FileObjects
  /\ load_fails \in [Tiers -> BOOLEAN]
  /\ tokenizer_fails \in BOOLEAN
  /\ attempts = <<>> /\ checkpoint = NoObject
  /\ model_params = "initial"

\* try: checkpoint = torch.load(path, map_location="cpu", weights_only=False)
LoadTier1 ==
  /\ lpc = "tier1"
  /\ attempts' = Append(attempts, 1)
  /\ IF load_fails[1]
     THEN lpc' = "tier2" /\ UNCHANGED checkpoint
     ELSE lpc' = "select" /\ checkpoint' = file_obj
  /\ UNCHANGED <<file_obj, load_fails, tokenizer_fails, model_params>>

\* except: add_safe_globals([ModelConfig]); try: checkpoint = torch.load(path,
\* map_location="cpu")
LoadTier2 ==
  /\ lpc = "tier2"
  /\ attempts' = Append(attempts, 2)
  /\ IF load_fails[2]
     THEN lpc' = "tier3" /\ UNCHANGED checkpoint
     ELSE lpc' = "select" /\ checkpoint' = file_obj
  /\ UNCHANGED <<file_obj, load_fails, tokenizer_fails, model_params>>

\* except: checkpoint = {"model_state_dict": torch.load(path, map_location="cpu",
\* weights_only=True)}; an exception of this call is not caught
LoadTier3 ==
  /\ lpc = "tier3"
  /\ attempts' = Append(attempts, 3)
  /\ IF load_fails[3]
     THEN lpc' = "raised" /\ UNCHANGED checkpoint
     ELSE lpc' = "select" /\ checkpoint' = Wrapper(file_obj)
  /\ UNCHANGED <<file_obj, load_fails, tokenizer_fails, model_params>>

\* faulty variant: load_state_dict(strict=False) accepts any dict
LoadStateDictLenient(o) == o.type \in {"state_dict", "wrapper"}

\* model.load_state_dict(o), strict: o must be a state dict whose keys and
\* shapes are the model's; otherwise it raises
LoadStateDictOK(o) == o.type = "state_dict" /\ o.match

\* the model's parameters after load_state_dict(o): the matching entries of a
\* state dict are copied before a mismatch is reported
ParamsAfterLoad(o) ==
  IF o.type = "state_dict" THEN (IF o.match THEN "checkpoint" ELSE "partial")
  ELSE "initial"

\* lines 41-46: if "model_state_dict" in checkpoint: load that entry, else load
\* the checkpoint itself; a non-dict raises in the test or in load_state_dict
SelectAndLoad ==
  /\ lpc = "select"
  /\ LET o == IF checkpoint.type = "wrapper" THEN checkpoint.inner ELSE checkpoint
     IN  IF checkpoint.type # "object" /\ LoadStateDictOK(o)
         THEN lpc' = "loaded" /\ model_params' = ParamsAfterLoad(o)
         ELSE lpc' = "raised" /\ model_params' = ParamsAfterLoad(o)
  /\ UNCHANGED <<file_obj, load_fails, tokenizer_fails, attempts, checkpoint>>

\* lines 48-63: model.to(device), model.eval(), the tokenizer, return
LoadReturn ==
  /\ lpc = "loaded"
  /\ lpc' = IF tokenizer_fails THEN "raised" ELSE "returned"
  /\ UNCHANGED <<file_obj, load_fails, tokenizer_fails, attempts, checkpoint,
                 model_params>>

(* ========================== specifications ============================= *)

NucNext ==
  \/ TruncateStep /\ UNCHANGED <<genVars, moeVars, fwdVars, trainVars, loadVars>>
  \/ SampleStep /\ UNCHANGED <<genVars, moeVars, fwdVars, trainVars, loadVars>>

InitNucleus == NucInit /\ GenIdle /\ MoEIdle /\ FwdIdle /\ TrainIdle /\ LoadIdle

SpecNucleus == InitNucleus /\ [][NucNext]_vars

GenNext ==
  \/ GenerateCall /\ UNCHANGED <<nucVars, moeVars, fwdVars, trainVars, loadVars>>
  \/ DecodeStep /\ UNCHANGED <<nucVars, moeVars, fwdVars, trainVars, loadVars>>
  \/ DecodeRaises /\ UNCHANGED <<nucVars, moeVars, fwdVars, trainVars, loadVars>>
  \/ LoopExit /\ UNCHANGED <<nucVars, moeVars, fwdVars, trainVars, loadVars>>

InitGen == GenIdle /\ NucIdle /\ MoEIdle /\ FwdIdle /\ TrainIdle /\ LoadIdle

SpecGen == InitGen /\ [][GenNext]_vars

MoENext ==
  \/ MoEForward /\ UNCHANGED <<genVars, nucVars, fwdVars, trainVars, loadVars>>
  \/ MoEForwardRaises /\ UNCHANGED <<genVars, nucVars, fwdVars, trainVars, loadVars>>

InitMoE == MoEInit /\ GenIdle /\ NucIdle /\ FwdIdle /\ TrainIdle /\ LoadIdle

SpecMoE == InitMoE /\ [][MoENext]_vars

FwdNext ==
  \/ Construct /\ UNCHANGED <<genVars, nucVars, moeVars, trainVars, loadVars>>
  \/ ConstructFails /\ UNCHANGED <<genVars, nucVars, moeVars, trainVars, loadVars>>
  \/ \E c \in Calls : ForwardStart(c) /\ UNCHANGED <<genVars, nucVars, moeVars, trainVars, loadVars>>
  \/ \E c \in Calls : LayerStep(c) /\ UNCHANGED <<genVars, nucVars, moeVars, trainVars, loadVars>>
  \/ \E c \in Calls : LayerRaises(c) /\ UNCHANGED <<genVars, nucVars, moeVars, trainVars, loadVars>>
  \/ \E c \in Calls : ForwardFinish(c) /\ UNCHANGED <<genVars, nucVars, moeVars, trainVars, loadVars>>

OverlapNext ==
  \/ \E c \in OverlapCalls : ForwardEnter(c) /\ UNCHANGED <<genVars, nucVars, moeVars, trainVars, loadVars>>
  \/ \E c \in OverlapCalls : LayerStep(c) /\ UNCHANGED <<genVars, nucVars, moeVars, trainVars, loadVars>>
  \/ \E c \in OverlapCalls : LayerRaises(c) /\ UNCHANGED <<genVars, nucVars, moeVars, trainVars, loadVars>>
  \/ \E c \in OverlapCalls : ForwardFinish(c) /\ UNCHANGED <<genVars, nucVars, moeVars, trainVars, loadVars>>

InitOverlap == FwdBuilt /\ GenIdle /\ NucIdle /\ MoEIdle /\ TrainIdle /\ LoadIdle

SpecOverlap == InitOverlap /\ [][OverlapNext]_vars

InitFwd == FwdIdle /\ GenIdle /\ NucIdle /\ MoEIdle /\ TrainIdle /\ LoadIdle

SpecFwd == InitFwd /\ [][FwdNext]_vars

TrainNext ==
  \/ TrainCall /\ UNCHANGED <<genVars, nucVars, moeVars, fwdVars, loadVars>>
  \/ LoopContinue /\ UNCHANGED <<genVars, nucVars, moeVars, fwdVars, loadVars>>
  \/ LoopReturn /\ UNCHANGED <<genVars, nucVars, moeVars, fwdVars, loadVars>>
  \/ NextItem /\ UNCHANGED <<genVars, nucVars, moeVars, fwdVars, loadVars>>
  \/ RestartAndNext /\ UNCHANGED <<genVars, nucVars, moeVars, fwdVars, loadVars>>
  \/ RestartFails /\ UNCHANGED <<genVars, nucVars, moeVars, fwdVars, loadVars>>
  \/ ForwardBackward /\ UNCHANGED <<genVars, nucVars, moeVars, fwdVars, loadVars>>
  \/ UpdateWeights /\ UNCHANGED <<genVars, nucVars, moeVars, fwdVars, loadVars>>
  \/ SkipUpdate /\ UNCHANGED <<genVars, nucVars, moeVars, fwdVars, loadVars>>
  \/ SaveCheckpoint /\ UNCHANGED <<genVars, nucVars, moeVars, fwdVars, loadVars>>
  \/ SkipCheckpoint /\ UNCHANGED <<genVars, nucVars, moeVars, fwdVars, loadVars>>
  \/ SaveFinal /\ UNCHANGED <<genVars, nucVars, moeVars, fwdVars, loadVars>>

InitTrain == TrainIdle /\ GenIdle /\ NucIdle /\ MoEIdle /\ FwdIdle /\ LoadIdle

SpecTrain == InitTrain /\ [][TrainNext]_vars

LoadNext ==
  \/ LoadTier1 /\ UNCHANGED <<genVars, nucVars, moeVars, fwdVars, trainVars>>
  \/ LoadTier2 /\ UNCHANGED <<genVars, nucVars, moeVars, fwdVars, trainVars>>
  \/ LoadTier3 /\ UNCHANGED <<genVars, nucVars, moeVars, fwdVars, trainVars>>
  \/ SelectAndLoad /\ UNCHANGED <<genVars, nucVars, moeVars, fwdVars, trainVars>>
  \/ LoadReturn /\ UNCHANGED <<genVars, nucVars, moeVars, fwdVars, trainVars>>

InitLoad == LoadInit /\ GenIdle /\ NucIdle /\ MoEIdle /\ FwdIdle /\ TrainIdle

SpecLoad == InitLoad /\ [][LoadNext]_vars

(* ============================== claims ================================= *)

\* the tokens generate_text has appended so far
Appended == SubSeq(input_ids, Len(prompt) + 1, Len(input_ids))

\* C1: generate_text performs at most max_length decode steps (forward passes
\* included), never performs a decode step after an end-of-sequence token was
\* appended (so only the last appended token can be the end-of-sequence id), and
\* when it stops and returns, either max_length steps were made or the last
\* appended token is the end-of-sequence id.
C1_StopsAtEosOrMaxLength ==
  gpc # "idle" =>
    /\ steps <= max_length
    /\ n_forward <= max_length
    /\ Len(Appended) = steps
    /\ \A i \in 1 .. (steps - 1) : Appended[i] # eos_token_id
    /\ gpc = "running" => \A i \in 1 .. steps : Appended[i] # eos_token_id
    /\ gpc = "done" =>
         \/ steps = max_length
         \/ steps > 0 /\ Appended[steps] = eos_token_id

\* a run that stopped on the end-of-sequence token although max_length allowed more
C1_Witness ==
  /\ gpc = "done" /\ steps = 1 /\ max_length = 2
  /\ Appended[1] = eos_token_id /\ Len(prompt) = 1

\* C2: the token sequence is append-only: the prompt stays a prefix of it, its
\* length stays between len(prompt) and len(prompt) + max_length, a decode step
\* appends exactly one token at the end and no other step changes it.
C2_AppendOnly ==
  /\ [](gpc # "idle" =>
          /\ IsPrefix(prompt, input_ids)
          /\ Len(prompt) <= Len(input_ids)
          /\ Len(input_ids) <= Len(prompt) + max_length)
  /\ [][gpc # "idle" =>
          /\ prompt' = prompt
          /\ IsPrefix(input_ids, input_ids')
          /\ steps' = steps + 1 => Len(input_ids') = Len(input_ids) + 1
          /\ steps' # steps + 1 => input_ids' = input_ids]_vars

\* two tokens were appended to a non-empty prompt
C2_Witness ==
  gpc = "done" /\ Len(prompt) = 1 /\ Len(input_ids) = Len(prompt) + 2

\* the tokens that survive the truncation of this decode step
Kept == {t \in DOMAIN next_token_logits : next_token_logits[t] # NegInf}

\* the logits of this decode step after the division by the temperature
ScaledLogit(t) == Pow(outputs_last[t], n_inv_temp)

\* the cumulative softmax probability of the first n sorted tokens exceeds top_p
PrefixExceeds(n) ==
  LET mass(m) == SumTo([i \in 1 .. vocab_size |-> ScaledLogit(sorted_indices[i])], m)
  IN  mass(n) * TopPDen > n_top_p * mass(vocab_size)

\* the length of the shortest prefix that exceeds top_p, all tokens when none does
ShortestPrefix ==
  IF \E n \in 1 .. vocab_size : PrefixExceeds(n)
  THEN CHOOSE n \in 1 .. vocab_size :
         PrefixExceeds(n) /\ \A m \in 1 .. (n - 1) : ~PrefixExceeds(m)
  ELSE vocab_size

\* C3: after the top-p truncation of a decode step the kept tokens are exactly the
\* shortest prefix of the tokens in descending order of logit whose cumulative
\* softmax probability exceeds top_p (all tokens if none does); the top token is
\* kept, top_p = 1 removes nothing, top_p = 0 keeps the top token alone, the kept
\* logits are untouched, the others are -inf, and the drawn token is a kept one.
C3_TopPKeepsShortestPrefix ==
  npc \in {"truncated", "sampled"} =>
    /\ \A i, j \in 1 .. vocab_size :
         i < j => ScaledLogit(sorted_indices[i]) >= ScaledLogit(sorted_indices[j])
    /\ Kept = {sorted_indices[i] : i \in 1 .. ShortestPrefix}
    /\ sorted_indices[1] \in Kept
    /\ n_top_p = TopPDen => Kept = Tokens
    /\ n_top_p = 0 => Kept = {sorted_indices[1]}
    /\ \A t \in Kept : next_token_logits[t] = ScaledLogit(t)
    /\ \A t \in Tokens \ Kept : next_token_logits[t] = NegInf
    /\ npc = "sampled" => next_token \in Kept

\* a truncation that keeps two tokens and removes a third, followed by a draw
C3_Witness ==
  /\ npc = "sampled" /\ n_top_p > 0 /\ n_top_p < TopPDen
  /\ Cardinality(Kept) = 2 /\ Kept # Tokens
  /\ next_token = sorted_indices[2]

\* C4: with max_length = 0 generate_text runs no forward pass and appends
\* nothing: it returns with the token sequence equal to the tokenized prompt.
C4_ZeroMaxLength ==
  (gpc # "idle" /\ max_length = 0) =>
    /\ n_forward = 0
    /\ steps = 0
    /\ input_ids = prompt
    /\ gpc # "raised"

\* generate_text returned a non-empty prompt with max_length = 0
C4_Witness == gpc = "done" /\ max_length = 0 /\ Len(prompt) = 2 /\ input_ids = prompt

\* the experts selected for token t
Selected(t) == {top_k_indices[t][i] : i \in 1 .. top_k}

\* C5: after MoE.forward, for every token exactly top_k distinct experts, the
\* ones of largest router probability, have contributed to its output, each
\* exactly once (one per slot) and with its renormalized probability; the weights
\* applied sum to 1, and an expert not selected for the token has added nothing.
C5_TopKExpertsWeightsSumToOne ==
  mpc = "done" =>
    \A t \in Positions :
      LET all == Experts(num_experts)
          den == top_k_probs[t][1][2]
          selw == SumOver(router_w[t], Selected(t))
      IN  /\ Cardinality(Selected(t)) = top_k
          /\ \A e \in all \ Selected(t) : \A s \in Selected(t) :
               router_w[t][e] <= router_w[t][s]
          /\ {e \in all : output[t][e].times > 0} = Selected(t)
          /\ \A e \in Selected(t) :
               /\ output[t][e].times = 1
               /\ output[t][e].weight > 0
               /\ output[t][e].weight * selw = router_w[t][e] * den
          /\ \A e \in all \ Selected(t) : output[t][e] = [times |-> 0, weight |-> 0]
          /\ \A i \in 1 .. top_k : top_k_probs[t][i][2] = den
          /\ SumOver([e \in all |-> output[t][e].weight], all) = den

\* two tokens routed to different experts, each leaving one expert out
C5_Witness ==
  /\ mpc = "done" /\ num_experts = 2 /\ top_k = 1
  /\ top_k_indices[1][1] # top_k_indices[2][1]
  /\ router_w[1] # router_w[2]

AuxRead(c, l) == f_own[f_ret[c].src[l]][l]

\* C12: when two forward calls with labels overlap on one model instance, the
\* loss a call returns is ce_loss + 0.01 * (sum over the layers of the value
\* stored on the layer when the aggregation ran), and that value is the one
\* computed by whichever of the two calls wrote the layer last, its own or the
\* other call's; the interleaving in which it is the other call's is reachable.
C12_LossReadsLastWriter ==
  \A c \in OverlapCalls :
    (fpc[c] = "returned" /\ f_args[c].labels) =>
      /\ f_ret[c].kind = "loss"
      /\ Len(f_own[c]) = config.num_hidden_layers
      /\ DOMAIN f_ret[c].src = 1 .. config.num_hidden_layers
      /\ \A l \in 1 .. config.num_hidden_layers :
           /\ f_ret[c].src[l] \in OverlapCalls
           /\ l <= Len(f_own[f_ret[c].src[l]])
      /\ f_ret[c].loss =
           LossScale * f_ret[c].ce
             + SumTo([l \in 1 .. config.num_hidden_layers |-> AuxRead(c, l)],
                     config.num_hidden_layers)

\* call 1 returned a loss that includes layer 1's auxiliary loss as written by
\* call 2, which differs from the one call 1 computed itself
C12_Witness ==
  /\ fpc[1] = "returned" /\ f_args[1].labels /\ f_args[2].labels
  /\ config.num_hidden_layers >= 1
  /\ f_ret[1].src[1] = 2
  /\ f_own[2][1] # f_own[1][1]
  /\ f_ret[1].loss # LossScale * f_ret[1].ce
                       + SumTo(f_own[1], config.num_hidden_layers)

\* the configuration is one the specification says construction must reject
BadConfig(cfg) ==
  \/ cfg.num_attention_heads # 0 /\ cfg.hidden_size % cfg.num_attention_heads # 0
  \/ cfg.vocab_size # vocab_size

\* C10 (as claimed): a configuration whose hidden size is not divisible by the
\* head count, or whose vocabulary size differs from the tokenizer's, never
\* yields a model object, and no forward call is made on one.
C10_BadConfigFailsAtConstruction ==
  BadConfig(config) =>
    /\ cpc # "built"
    /\ \A c \in Calls : fpc[c] = "idle"

\* the positions (row, t) of the shifted sequence whose target, at t + 1, is a
\* token of the text and not padding
NonPaddedPositions(mask) ==
  {<<b, t>> \in (DOMAIN mask) \X (1 .. MaxTextLen + 1) :
     t + 1 <= Len(mask[b]) /\ mask[b][t + 1] = 1}

\* C7 (as claimed): in the training loop the cross-entropy is the mean over
\* exactly the non-padded positions of the shifted sequence: no position whose
\* target is padding is averaged in.
C7_LossSkipsPadding ==
  (tpc = "update") => ce_positions = NonPaddedPositions(inputs.attention_mask)

\* the records consumed before the batch being built, or just built, began
ConsumedBefore ==
  batch_size * (IF tpc \in {"batch", "update"} THEN step ELSE step - 1)

\* C9 (amended): for every non-empty dataset no StopIteration leaves the
\* batch-building loop: on exhaustion the stream restarts at its first record,
\* so the batches hold the records in cyclic order, and every batch given to the
\* model holds exactly batch_size records.
C9_NonEmptyStreamRestarts ==
  Len(dataset) > 0 =>
    /\ tpc # "stop_iteration"
    /\ Len(batch_texts) <= batch_size
    /\ tpc \in {"update", "saving"} => Len(batch_texts) = batch_size
    /\ tpc \in {"batch", "update", "saving"} =>
         \A i \in 1 .. Len(batch_texts) :
           batch_texts[i] = dataset[((ConsumedBefore + i - 1) % Len(dataset)) + 1]

\* a batch of two records that wraps around the end of a two-record stream whose
\* iterator was restarted in the middle of the batch
C9_Witness ==
  /\ tpc = "update" /\ batch_size = 2 /\ dataset = <<1, 2>> /\ step = 1
  /\ batch_texts = <<1, 2>> /\ train_iter = 2

\* C9 (as claimed): for every dataset, no StopIteration leaves train_model.
C9_NoStopIterationEver == tpc # "stop_iteration"

\* the periodic checkpoints written so far
PeriodicCheckpoints == SelectSeq(checkpoints, LAMBDA r : r.file = "checkpoint")

\* the iterations whose closing "if step % 500 == 0" has already been passed
CadenceTestsPassed == IF tpc = "saving" THEN step - 1 ELSE step

\* C11: a periodic checkpoint is written exactly when the completed step count
\* is a positive multiple of 500: the k-th one holds step 500 * k, and after
\* every iteration there are as many as multiples of 500 were completed. Each
\* is written between optimizer steps, after the iteration's backward pass and
\* optimizer update and before the next forward pass, with every gradient
\* applied, so the snapshot is consistent. The final checkpoint of main is
\* written once, last, and only after the training loop has returned.
C11_CheckpointCadence ==
  /\ [](/\ Len(PeriodicCheckpoints) = CadenceTestsPassed \div CheckpointEvery
        /\ \A k \in 1 .. Len(PeriodicCheckpoints) :
             /\ PeriodicCheckpoints[k].step = CheckpointEvery * k
             /\ PeriodicCheckpoints[k].grads = 0
             /\ PeriodicCheckpoints[k].n_opt * gradient_accumulation_steps
                  = PeriodicCheckpoints[k].step
        /\ \A i \in 1 .. Len(checkpoints) :
             checkpoints[i].file = "final_model" =>
               /\ i = Len(checkpoints) /\ tpc = "finished"
               /\ checkpoints[i].step = num_steps)
  /\ [][checkpoints' # checkpoints =>
          \/ /\ tpc = "saving" /\ tpc' = "head"
             /\ step > 0 /\ step % CheckpointEvery = 0
             /\ UNCHANGED <<step, grads, n_opt, inputs>>
          \/ /\ tpc = "returned" /\ tpc' = "finished"
             /\ ~(step < num_steps)]_vars

\* a run of 501 steps wrote checkpoint_500.pt and then the final model
C11_Witness ==
  /\ tpc = "finished" /\ Len(checkpoints) = 2
  /\ checkpoints[1].file = "checkpoint" /\ checkpoints[1].step = CheckpointEvery
  /\ checkpoints[2].file = "final_model" /\ checkpoints[2].step = CheckpointEvery + 1

\* C13 (as claimed): train_model returns after exactly num_steps iterations,
\* with one optimizer step and gradient reset per 4 iterations, and when it
\* returns, and in every periodic checkpoint, no gradient of a backward pass is
\* left accumulated without an optimizer step having applied it.
C13_NoGradientLeftUnapplied ==
  /\ tpc \in {"returned", "finished"} =>
       /\ step = num_steps
       /\ n_opt = step \div gradient_accumulation_steps
       /\ grads = 0
  /\ \A k \in 1 .. Len(PeriodicCheckpoints) : PeriodicCheckpoints[k].grads = 0

\* the file holds a state dict of the model, bare or under "model_state_dict"
Recognized(o) == o \in {StateDict(TRUE), Wrapper(StateDict(TRUE))}

\* C8: the three torch.load calls are tried in the order 1, 2, 3, each only
\* after the one before raised; when all three raise, or the file holds neither
\* a dict with a matching "model_state_dict" entry nor a bare matching state
\* dict, load_trained_model ends with the exception and returns no model; a
\* model is returned only with all its parameters taken from the checkpoint.
C8_TieredLoadFailsLoudly ==
  /\ \E n \in 0 .. 3 : attempts = [i \in 1 .. n |-> i]
  /\ \A i \in 1 .. Len(attempts) : i > 1 => load_fails[i - 1]
  /\ lpc = "select" => ~load_fails[Len(attempts)]
  /\ (\A i \in Tiers : load_fails[i]) =>
       /\ lpc \in {"tier1", "tier2", "tier3", "raised"}
       /\ Len(attempts) = 3 => lpc = "raised"
  /\ ~Recognized(file_obj) => lpc \notin {"loaded", "returned"}
  /\ ~Recognized(file_obj) /\ lpc \notin {"tier1", "tier2", "tier3", "select"}
       => lpc = "raised"
  /\ lpc \in {"loaded", "returned"} => model_params = "checkpoint"
  /\ model_params = "partial" => lpc = "raised"

\* the bare state dict was loaded by the third tier after two failures
C8_Witness ==
  /\ lpc = "returned" /\ attempts = <<1, 2, 3>> /\ file_obj = StateDict(TRUE)
  /\ model_params = "checkpoint"

====
